---- MODULE Spec2Model ----
(***************************************************************************)
(* Backtracking timetable solver (src/timetable_csp.py, class              *)
(* TimetableCSP) as a state machine.  One step of the model is one step of *)
(* the recursion of backtrack(): entering a call, binding the next         *)
(* candidate of a level, returning to the caller, undoing a binding.       *)
(*                                                                         *)
(* random.shuffle(domain_values) followed by iteration over the shuffled   *)
(* list is modelled by drawing the next candidate from the set of          *)
(* candidates of the level not tried yet: every permutation of the list is *)
(* one way of making these draws, and every sequence of draws is a         *)
(* permutation.                                                            *)
(*                                                                         *)
(* The module also holds the caller of the solver (CallerSpec), two        *)
(* solver instances whose steps interleave (TwoSpec), the grid search of   *)
(* src/Astar_heapq.py (AstarSpec, one step per iteration of its while      *)
(* loop) and the puzzle search of src/bfs.py (PuzzleSpec, likewise), and   *)
(* the rule engine of src/forward_chaining_expert_system.py (ChainSpec,    *)
(* one step per rule examined by forward_chain()) and the game-tree search *)
(* of src/minmax.py (GameSpec, one step per trial move, return and undo).  *)
(* The variables of a program that is not running keep their idle values.  *)
(***************************************************************************)
EXTENDS Integers, Sequences, FiniteSets, TLC

\* ---- bounds of the model ------------------------------------------------
NumDays == 2
NumPeriods == 2
MaxQuota == 3
MaxPairs == 2
MaxTwoRoomTotal == 3

\* ---- the catalogs of the problem definition (__init__) -------------------
days == 1..NumDays
time_slots == 1..NumPeriods
subjects == {"Math", "Physics"}
teachers == {"Teacher_A", "Teacher_B"}
rooms == {"Room_101", "Room_102"}

VARIABLES subject_periods, teacher_subjects, classrooms,
          assignment, stack, pc, retval, result,
          store_op,   \* the last store into / delete from self.assignment
          report      \* the lines printed by the last reporting call

\* the state of one TimetableCSP instance and of its caller
instance_vars == <<subject_periods, teacher_subjects, classrooms,
                   assignment, stack, pc, retval, result, store_op, report>>

\* a second TimetableCSP instance: `other` holds the state of the instance
\* that is not executing, `turn` names the instance that is
VARIABLES turn, other
two_vars == <<turn, other>>

\* astar(grid, start, goal) of src/Astar_heapq.py
VARIABLES grid, start, goal, open_list, closed_set, g_score, f_score, parent,
          astar_pc, path
astar_vars == <<grid, start, goal, open_list, closed_set, g_score, f_score,
                parent, astar_pc, path>>

\* solve_puzzle(initial_state, goal_state) of src/bfs.py
VARIABLES initial_state, goal_state, queue, visited, bfs_pc, solution
bfs_vars == <<initial_state, goal_state, queue, visited, bfs_pc, solution>>

\* ForwardChainingEngine of src/forward_chaining_expert_system.py: its four
\* attributes, and the locals of forward_chain() (`rule_index` is the
\* position of the for loop in self.rules)
VARIABLES facts, rules, fired_rules, trace, changed, iteration, rule_index,
          chain_pc
chain_vars == <<facts, rules, fired_rules, trace, changed, iteration,
                rule_index, chain_pc>>

\* TicTacToe of src/minmax.py: the board, the activation records of
\* find_best_move() and minimax() (`frames`), the value a call returned
\* (`game_ret`), the move find_best_move() returned (`best_move`), which
\* entry point is running (`game_mode`) and where it is (`game_pc`)
VARIABLES board, frames, game_ret, best_move, game_mode, game_pc
game_vars == <<board, frames, game_ret, best_move, game_mode, game_pc>>

vars == <<instance_vars, two_vars, astar_vars, bfs_vars, chain_vars,
          game_vars>>

NoValue == <<>>

\* ---- the assignment dictionary ------------------------------------------
\* A dict is the set of its items <<key, value>>; key = <<day, time_slot>>,
\* value = <<subject, teacher, classroom>>.
Keys(a) == {b[1] : b \in a}

\* self.assignment[slot] = value
DictSet(a, slot, value) == {b \in a : b[1] # slot} \cup {<<slot, value>>}

\* self.assignment[slot] = value never raises: a bound key is overwritten
StoreRaises(a, slot) == FALSE

\* del self.assignment[slot]
DictDelKeep(a, slot) == a
DictDel(a, slot) == {b \in a : b[1] # slot}

\* del self.assignment[slot] raises KeyError when the key is absent
DelRaisesNever(a, slot) == FALSE
DelRaisesAlways(a, slot) == TRUE
DelRaises(a, slot) == slot \notin Keys(a)

\* self.assignment = {} in solve()
ResetKeep(a) == a
Reset(a) == {}

NoOp == [op |-> "none", slot |-> <<>>, bound |-> FALSE, raised |-> FALSE]
StoreOp(name, a, slot, raises) ==
    [op |-> name, slot |-> slot, bound |-> slot \in Keys(a), raised |-> raises]

\* ---- pure functions of (problem definition, assignment) ------------------
is_valid_assignmentAnySlot(a, slot, subject, teacher, classroom) ==
    /\ subject \in teacher_subjects[teacher]
    /\ ~ \E b \in a : b[2][2] = teacher
    /\ ~ \E b \in a : b[2][3] = classroom
is_valid_assignment(a, slot, subject, teacher, classroom) ==
    /\ subject \in teacher_subjects[teacher]
    /\ ~ \E b \in a : b[1] = slot /\ b[2][2] = teacher
    /\ ~ \E b \in a : b[1] = slot /\ b[2][3] = classroom

get_subject_count(a, subject) == Cardinality({b \in a : b[2][1] = subject})

is_completeAtMost(a) ==
    \A s \in subjects : ~ (get_subject_count(a, s) > subject_periods[s])
is_complete(a) ==
    \A s \in subjects : ~ (get_subject_count(a, s) < subject_periods[s])

\* all_slots: day-major, then period
all_slotsPeriodMajor ==
    [i \in 1..(NumDays * NumPeriods) |->
        <<((i - 1) % NumDays) + 1, ((i - 1) \div NumDays) + 1>>]
all_slots ==
    [i \in 1..(NumDays * NumPeriods) |->
        <<((i - 1) \div NumPeriods) + 1, ((i - 1) % NumPeriods) + 1>>]

get_unassigned_variablesAll(a) == all_slots
get_unassigned_variables(a) ==
    SelectSeq(all_slots, LAMBDA slot : slot \notin Keys(a))

needed_subjectsInclusive(a) ==
    {s \in subjects : get_subject_count(a, s) <= subject_periods[s]}
needed_subjectsEarly(a) ==
    {s \in subjects : get_subject_count(a, s) + 1 < subject_periods[s]}
needed_subjects(a) ==
    {s \in subjects : get_subject_count(a, s) < subject_periods[s]}

\* The orders in which get_domain_values iterates: subject_periods.items()
\* (insertion order), self.teachers, self.classrooms.
subject_order == <<"Math", "Physics">>
teacher_order == <<"Teacher_A", "Teacher_B">>
classroom_order == SelectSeq(<<"Room_101", "Room_102">>, LAMBDA r : r \in classrooms)

\* the triples visited by the three nested loops, in the order of the visits
loop_order ==
    LET co == classroom_order
        nt == Len(teacher_order)
        nc == Len(co)
    IN [i \in 1..(Len(subject_order) * nt * nc) |->
          <<subject_order[((i - 1) \div (nt * nc)) + 1],
            teacher_order[(((i - 1) \div nc) % nt) + 1],
            co[((i - 1) % nc) + 1]>>]

\* the list `values` returned by get_domain_values
domain_value_list(a, slot) ==
    LET needed == needed_subjects(a) IN
    SelectSeq(loop_order, LAMBDA v :
        /\ v[1] \in needed
        /\ v[1] \in teacher_subjects[v[2]]
        /\ is_valid_assignment(a, slot, v[1], v[2], v[3]))

\* the candidates of the list, as the set the shuffled iteration draws from
get_domain_valuesUnfiltered(a, slot) ==
    {v \in needed_subjects(a) \X teachers \X classrooms : TRUE}
get_domain_values(a, slot) ==
    LET values == domain_value_list(a, slot) IN
    {values[i] : i \in 1..Len(values)}

\* the candidates of a level still to be tried after candidate v
RemainingKeep(dv, v) == dv
Remaining(dv, v) == dv \ {v}

\* ---- the problem definitions explored -----------------------------------
\* Quotas include zero and a negative value (configuration errors).
Quotas == -1..MaxQuota

\* Capability relations with at most MaxPairs (teacher, subject) pairs.
Capabilities ==
    {ts \in [teachers -> SUBSET subjects] :
        Cardinality({p \in teachers \X subjects : p[2] \in ts[p[1]]}) <= MaxPairs}

RECURSIVE SumOver(_, _)
SumOver(f, S) ==
    IF S = {} THEN 0
    ELSE LET x == CHOOSE y \in S : TRUE IN f[x] + SumOver(f, S \ {x})

NumSlots == NumDays * NumPeriods
Positive(sp) == [s \in subjects |-> IF sp[s] > 0 THEN sp[s] ELSE 0]

\* Every quota map is explored with one classroom; with two classrooms the
\* quota maps explored are those whose positive quotas sum to at most
\* MaxTwoRoomTotal.
Explored(sp, cr) ==
    Cardinality(cr) = 1 \/ SumOver(Positive(sp), subjects) <= MaxTwoRoomTotal

\* programs that are not running
TwoIdle == turn = 1 /\ other = NoValue
AstarIdle ==
    /\ grid = <<>> /\ start = <<>> /\ goal = <<>>
    /\ open_list = {} /\ closed_set = {}
    /\ g_score = <<>> /\ f_score = <<>> /\ parent = <<>>
    /\ astar_pc = "idle" /\ path = <<>>
PuzzleIdle ==
    /\ initial_state = <<>> /\ goal_state = <<>>
    /\ queue = <<>> /\ visited = {}
    /\ bfs_pc = "idle" /\ solution = <<>>
ChainIdle ==
    /\ facts = {} /\ rules = <<>> /\ fired_rules = <<>> /\ trace = <<>>
    /\ changed = FALSE /\ iteration = 0 /\ rule_index = 0
    /\ chain_pc = "idle"
GameIdle ==
    /\ board = <<>> /\ frames = <<>> /\ game_ret = 0 /\ best_move = <<>>
    /\ game_mode = "idle" /\ game_pc = "idle"

Init ==
    /\ TwoIdle /\ AstarIdle /\ PuzzleIdle /\ ChainIdle /\ GameIdle
    /\ subject_periods \in [subjects -> Quotas]
    /\ teacher_subjects \in Capabilities
    /\ classrooms \in {{"Room_101"}, rooms}
    /\ Explored(subject_periods, classrooms)
    /\ assignment = {}
    /\ stack = <<>>
    /\ pc = "idle"
    /\ retval = FALSE
    /\ result = "none"
    /\ store_op = NoOp
    /\ report = NoValue

Top == stack[Len(stack)]
Pop == SubSeq(stack, 1, Len(stack) - 1)
problem == <<subject_periods, teacher_subjects, classrooms>>

\* solve(): reset the assignment and call backtrack()
Solve ==
    /\ pc \in {"idle", "done"}
    /\ assignment' = Reset(assignment)
    /\ stack' = <<>>
    /\ pc' = "call"
    /\ result' = "none"
    /\ report' = NoValue
    /\ UNCHANGED <<problem, retval, store_op>>
    /\ UNCHANGED <<two_vars, astar_vars, bfs_vars, chain_vars, game_vars>>

\* backtrack(): if self.is_complete(): return True
BacktrackComplete ==
    /\ pc = "call"
    /\ is_complete(assignment)
    /\ pc' = "ret"
    /\ retval' = TRUE
    /\ UNCHANGED <<problem, assignment, stack, result, store_op, report>>
    /\ UNCHANGED <<two_vars, astar_vars, bfs_vars, chain_vars, game_vars>>

\* backtrack(): if not unassigned: return self.is_complete()
BacktrackNoSlotTrue ==
    /\ pc = "call"
    /\ ~ is_complete(assignment)
    /\ get_unassigned_variables(assignment) = <<>>
    /\ pc' = "ret"
    /\ retval' = TRUE
    /\ UNCHANGED <<problem, assignment, stack, result, store_op, report>>
    /\ UNCHANGED <<two_vars, astar_vars, bfs_vars, chain_vars, game_vars>>
BacktrackNoSlot ==
    /\ pc = "call"
    /\ ~ is_complete(assignment)
    /\ get_unassigned_variables(assignment) = <<>>
    /\ pc' = "ret"
    /\ retval' = is_complete(assignment)
    /\ UNCHANGED <<problem, assignment, stack, result, store_op, report>>
    /\ UNCHANGED <<two_vars, astar_vars, bfs_vars, chain_vars, game_vars>>

\* backtrack(): choose unassigned[0], compute and shuffle its domain; the
\* frame also remembers the assignment the call was entered with (`entry`),
\* which the program does not store
BacktrackSelect ==
    /\ pc = "call"
    /\ ~ is_complete(assignment)
    /\ LET unassigned == get_unassigned_variables(assignment) IN
        /\ unassigned # <<>>
        /\ stack' = Append(stack,
                [unassigned |-> unassigned,
                 slot |-> unassigned[1],
                 domain_values |-> get_domain_values(assignment, unassigned[1]),
                 cur |-> NoValue,
                 entry |-> assignment])
    /\ pc' = "loop"
    /\ UNCHANGED <<problem, assignment, retval, result, store_op, report>>
    /\ UNCHANGED <<two_vars, astar_vars, bfs_vars, chain_vars, game_vars>>

\* for subject, teacher, classroom in domain_values: bind and recurse
LoopBind ==
    /\ pc = "loop"
    /\ \E v \in Top.domain_values :
        /\ assignment' = DictSet(assignment, Top.slot, v)
        /\ stack' = [stack EXCEPT ![Len(stack)] =
                [@ EXCEPT !.cur = v,
                          !.domain_values = Remaining(@, v)]]
    /\ store_op' = StoreOp("bind", assignment, Top.slot,
                           StoreRaises(assignment, Top.slot))
    /\ pc' = "call"
    /\ UNCHANGED <<problem, retval, result, report>>
    /\ UNCHANGED <<two_vars, astar_vars, bfs_vars, chain_vars, game_vars>>

\* the loop is over: return False
LoopExhausted ==
    /\ pc = "loop"
    /\ Top.domain_values = {}
    /\ stack' = Pop
    /\ pc' = "ret"
    /\ retval' = FALSE
    /\ UNCHANGED <<problem, assignment, result, store_op, report>>
    /\ UNCHANGED <<two_vars, astar_vars, bfs_vars, chain_vars, game_vars>>

\* if self.backtrack(): return True
ReturnTrueUndo ==
    /\ pc = "ret"
    /\ stack # <<>>
    /\ retval
    /\ stack' = Pop
    /\ assignment' = DictDel(assignment, Top.slot)
    /\ UNCHANGED <<problem, pc, retval, result, store_op, report>>
    /\ UNCHANGED <<two_vars, astar_vars, bfs_vars, chain_vars, game_vars>>
ReturnTrue ==
    /\ pc = "ret"
    /\ stack # <<>>
    /\ retval
    /\ stack' = Pop
    /\ UNCHANGED <<problem, assignment, pc, retval, result, store_op, report>>
    /\ UNCHANGED <<two_vars, astar_vars, bfs_vars, chain_vars, game_vars>>

\* the recursive call returned False: del self.assignment[(day, time_slot)];
\* a KeyError raised by del is caught nowhere and ends the program
ReturnFalseUnbind ==
    /\ pc = "ret"
    /\ stack # <<>>
    /\ ~ retval
    /\ store_op' = StoreOp("del", assignment, Top.slot,
                           DelRaises(assignment, Top.slot))
    /\ IF DelRaises(assignment, Top.slot)
       THEN /\ pc' = "crashed"
            /\ UNCHANGED <<assignment, stack>>
       ELSE /\ assignment' = DictDel(assignment, Top.slot)
            /\ stack' = [stack EXCEPT ![Len(stack)] = [@ EXCEPT !.cur = NoValue]]
            /\ pc' = "loop"
    /\ UNCHANGED <<problem, retval, result, report>>
    /\ UNCHANGED <<two_vars, astar_vars, bfs_vars, chain_vars, game_vars>>

\* the outermost backtrack() returns to solve(), which returns its value
SolveReturn ==
    /\ pc = "ret"
    /\ stack = <<>>
    /\ result' = (IF retval THEN "Success" ELSE "Exhausted")
    /\ pc' = "done"
    /\ UNCHANGED <<problem, assignment, stack, retval, store_op, report>>
    /\ UNCHANGED <<two_vars, astar_vars, bfs_vars, chain_vars, game_vars>>

Next ==
    \/ Solve
    \/ BacktrackComplete
    \/ BacktrackNoSlot
    \/ BacktrackSelect
    \/ LoopBind
    \/ LoopExhausted
    \/ ReturnTrue
    \/ ReturnFalseUnbind
    \/ SolveReturn

Spec == Init /\ [][Next]_vars

\* solve() runs to completion without yielding: every enabled step is taken.
\* Termination is explored on the problems of Init whose positive quotas,
\* with two classrooms, sum to less than MaxTwoRoomTotal.
FairInit ==
    /\ Init
    /\ \/ Cardinality(classrooms) = 1
       \/ SumOver(Positive(subject_periods), subjects) < MaxTwoRoomTotal
FairSpec == FairInit /\ [][Next]_vars /\ WF_vars(Next)

\* ---- the caller of the engine ------------------------------------------
\* self.assignment is a public attribute: before solve() the caller may
\* store into it and delete from it (here: on the first slot), with the
\* statements backtrack() uses, and may print the timetable.
PrefillSlots == {all_slots[1]}

CallerBind ==
    /\ pc = "idle"
    /\ \E slot \in PrefillSlots : \E v \in subjects \X teachers \X classrooms :
        /\ assignment' = DictSet(assignment, slot, v)
        /\ store_op' = StoreOp("bind", assignment, slot, StoreRaises(assignment, slot))
    /\ report' = NoValue
    /\ UNCHANGED <<problem, stack, pc, retval, result>>
    /\ UNCHANGED <<two_vars, astar_vars, bfs_vars, chain_vars, game_vars>>

CallerUnbind ==
    /\ pc = "idle"
    /\ \E slot \in PrefillSlots :
        /\ store_op' = StoreOp("del", assignment, slot, DelRaises(assignment, slot))
        /\ IF DelRaises(assignment, slot)
           THEN pc' = "crashed" /\ UNCHANGED assignment
           ELSE assignment' = DictDel(assignment, slot) /\ UNCHANGED pc
    /\ report' = NoValue
    /\ UNCHANGED <<problem, stack, retval, result>>
    /\ UNCHANGED <<two_vars, astar_vars, bfs_vars, chain_vars, game_vars>>

\* print_timetable(): "No solution found!" for an empty assignment, else the
\* SUBJECT PERIOD COUNT lines: subject, actual, required, status
print_timetable(a) ==
    IF a = {} THEN <<<<"No solution found!">>>>
    ELSE [i \in 1..Len(subject_order) |->
            LET s == subject_order[i] IN
            <<s, get_subject_count(a, s), subject_periods[s],
              IF get_subject_count(a, s) = subject_periods[s] THEN "ok" ELSE "x">>]

\* the assignment after print_timetable(): its loops only read
AfterReportDrained(a) == {}
AfterReport(a) == a

Report ==
    /\ pc \in {"idle", "done"}
    /\ report' = print_timetable(assignment)
    /\ assignment' = AfterReport(assignment)
    /\ UNCHANGED <<problem, stack, pc, retval, result, store_op>>
    /\ UNCHANGED <<two_vars, astar_vars, bfs_vars, chain_vars, game_vars>>

CallerNext ==
    \/ Next
    \/ CallerBind
    \/ CallerUnbind
    \/ Report

CallerSpec == Init /\ [][CallerNext]_vars

\* ---- two instances ---------------------------------------------------------
\* bound of the pairs of problems explored: the quotas of an instance sum to
\* at most MaxPairedTotal, or overflow the week
MaxPairedTotal == 1

\* The dictionary object an instance's self.assignment refers to: __init__
\* and solve() evaluate `{}` for the instance, which creates an object no
\* other instance refers to.
assignment_ofShared(i) == 1
assignment_of(i) == i

\* the state of the executing instance, as a record
instance_state ==
    [subject_periods |-> subject_periods, teacher_subjects |-> teacher_subjects,
     classrooms |-> classrooms, assignment |-> assignment, stack |-> stack,
     pc |-> pc, retval |-> retval, result |-> result, store_op |-> store_op,
     report |-> report]

\* what the instance that is not executing finds in its self.assignment
other_assignment ==
    IF assignment_of(3 - turn) = assignment_of(turn)
    THEN assignment
    ELSE other.assignment

\* the quota maps given to the two instances: the small ones, and one that
\* asks for one period more than there are slots
OverflowQuotas == [s \in subjects |-> IF s = "Math" THEN NumSlots + 1 ELSE 0]
PairedQuotas ==
    {sp \in [subjects -> 0..MaxQuota] : SumOver(sp, subjects) <= MaxPairedTotal}
        \cup {OverflowQuotas}
PairedCapabilities ==
    {[t \in teachers |-> IF t = "Teacher_A" THEN {"Math"} ELSE {"Physics"}],
     [t \in teachers |-> IF t = "Teacher_A" THEN {"Math"} ELSE {}]}

\* an order of the quota maps: either instance may take the first step, so a
\* pair of quota maps and the same pair exchanged start the same runs with
\* the two instances renamed; one of the two pairs is explored
QuotaRank(sp) ==
    SumOver(sp, subjects) * (MaxQuota + NumSlots + 2) + sp["Math"]

\* two instances constructed by the same __init__, with the same teachers'
\* capabilities, and given their quotas; neither solve started
TwoInit ==
    /\ AstarIdle /\ PuzzleIdle /\ ChainIdle /\ GameIdle
    /\ turn = 1
    /\ subject_periods \in PairedQuotas
    /\ teacher_subjects \in PairedCapabilities
    /\ classrooms = {"Room_101"}
    /\ assignment = {} /\ stack = <<>> /\ pc = "idle" /\ retval = FALSE
    /\ result = "none" /\ store_op = NoOp /\ report = NoValue
    /\ \E sp \in {q \in PairedQuotas :
                    QuotaRank(q) <= QuotaRank(subject_periods)} :
        other = [subject_periods |-> sp, teacher_subjects |-> teacher_subjects,
                 classrooms |-> {"Room_101"}, assignment |-> {}, stack |-> <<>>,
                 pc |-> "idle", retval |-> FALSE, result |-> "none",
                 store_op |-> NoOp, report |-> NoValue]

\* the next step is taken by the other instance
Switch ==
    /\ turn' = 3 - turn
    /\ other' = instance_state
    /\ subject_periods' = other.subject_periods
    /\ teacher_subjects' = other.teacher_subjects
    /\ classrooms' = other.classrooms
    /\ assignment' = other_assignment
    /\ stack' = other.stack
    /\ pc' = other.pc
    /\ retval' = other.retval
    /\ result' = other.result
    /\ store_op' = other.store_op
    /\ report' = other.report
    /\ UNCHANGED <<astar_vars, bfs_vars, chain_vars, game_vars>>

TwoNext ==
    \/ Next
    \/ Switch

TwoSpec == TwoInit /\ [][TwoNext]_vars

\* the scheduler keeps switching, and each of the two solves keeps taking
\* steps when it is scheduled
TwoFairSpec ==
    TwoSpec /\ WF_vars(Switch)
            /\ SF_vars(Next /\ turn = 1) /\ SF_vars(Next /\ turn = 2)

\* ---- A* on a grid (src/Astar_heapq.py) ------------------------------------
\* bounds of the grids explored
GridRows == 2
GridCols == 3
MaxObstacles == 2

\* rows, cols = len(grid), len(grid[0]); a position is <<x, y>> and the cell
\* of a position is grid[y][x], rows and columns counted from 0
rows == GridRows
cols == GridCols
Cells == (0..(cols - 1)) \X (0..(rows - 1))

Abs(n) == IF n < 0 THEN -n ELSE n
manhattan_distance(a, b) == Abs(a[1] - b[1]) + Abs(a[2] - b[2])

\* directions.items(): up, right, down, left
directions == << <<0, -1>>, <<1, 0>>, <<0, 1>>, <<-1, 0>> >>

\* if not (0 <= x < cols and 0 <= y < rows): continue
in_grid(x, y) == 0 <= x /\ x < cols /\ 0 <= y /\ y < rows

\* if grid[y][x] == 1: continue
is_obstacleNever(g, x, y) == FALSE
is_obstacle(g, x, y) == g[y][x] = 1

\* the order of the heap entries (f, (x, y)): Python's tuple comparison
EntryLess(a, b) ==
    \/ a[1] < b[1]
    \/ a[1] = b[1] /\ a[2][1] < b[2][1]
    \/ a[1] = b[1] /\ a[2][1] = b[2][1] /\ a[2][2] < b[2][2]

\* heapq.heappop(open_list): the smallest entry
heappop(h) == CHOOSE e \in h : \A o \in h : o = e \/ EntryLess(e, o)

\* d[key] = value on a dict held as a function
Store(d, key, value) == [k \in DOMAIN d \cup {key} |-> IF k = key THEN value ELSE d[k]]

\* the for loop over the directions, from direction i on, run on the record
\* s of the structures it updates; closed is closed_set with current added
RECURSIVE Neighbors(_, _, _, _)
Neighbors(s, closed, current, i) ==
    IF i > Len(directions) THEN s
    ELSE
      LET x == current[1] + directions[i][1]
          y == current[2] + directions[i][2]
          neighbor == <<x, y>>
          tentative_g == s.g_score[current] + 1
          f == tentative_g + manhattan_distance(neighbor, goal)
          queued == {item[2] : item \in s.open_list}
      IN
        IF ~ in_grid(x, y) THEN Neighbors(s, closed, current, i + 1)
        ELSE IF is_obstacle(grid, x, y) THEN Neighbors(s, closed, current, i + 1)
        ELSE IF neighbor \in closed THEN Neighbors(s, closed, current, i + 1)
        ELSE IF neighbor \notin DOMAIN s.g_score \/ tentative_g < s.g_score[neighbor]
        THEN Neighbors(
                [open_list |-> IF neighbor \notin queued
                               THEN s.open_list \cup {<<f, neighbor>>}
                               ELSE s.open_list,
                 g_score |-> Store(s.g_score, neighbor, tentative_g),
                 f_score |-> Store(s.f_score, neighbor, f),
                 parent |-> Store(s.parent, neighbor, current)],
                closed, current, i + 1)
        ELSE Neighbors(s, closed, current, i + 1)

\* while current in parent: path.append(current); current = parent[current]
\* then path.append(start) and return path[::-1]
RECURSIVE reconstruct(_, _)
reconstruct(par, current) ==
    IF current \in DOMAIN par
    THEN Append(reconstruct(par, par[current]), current)
    ELSE <<start>>

Grids ==
    {g \in [0..(rows - 1) -> [0..(cols - 1) -> {0, 1}]] :
        Cardinality({c \in Cells : g[c[2]][c[1]] = 1}) <= MaxObstacles}

\* the state on reaching `while open_list:` for the first time
AstarInit ==
    /\ subject_periods = [s \in subjects |-> 0]
    /\ teacher_subjects = [t \in teachers |-> {}]
    /\ classrooms = rooms
    /\ assignment = {} /\ stack = <<>> /\ pc = "idle" /\ retval = FALSE
    /\ result = "none" /\ store_op = NoOp /\ report = NoValue
    /\ TwoIdle /\ PuzzleIdle /\ ChainIdle /\ GameIdle
    /\ grid \in Grids
    /\ start \in Cells
    /\ goal \in Cells
    /\ open_list = {<<manhattan_distance(start, goal), start>>}
    /\ closed_set = {}
    /\ g_score = [k \in {start} |-> 0]
    /\ f_score = [k \in {start} |-> manhattan_distance(start, goal)]
    /\ parent = [k \in {} |-> start]
    /\ astar_pc = "loop"
    /\ path = <<>>

\* heappop, then `if current == goal`: reconstruct the path and return it
AstarReturnPath ==
    /\ astar_pc = "loop"
    /\ open_list # {}
    /\ LET current == heappop(open_list)[2] IN
        /\ current = goal
        /\ path' = reconstruct(parent, current)
    /\ open_list' = open_list \ {heappop(open_list)}
    /\ astar_pc' = "path"
    /\ UNCHANGED <<grid, start, goal, closed_set, g_score, f_score, parent>>
    /\ UNCHANGED <<instance_vars, two_vars, bfs_vars, chain_vars, game_vars>>

\* heappop, current is not the goal: close it and visit its neighbours
AstarExpand ==
    /\ astar_pc = "loop"
    /\ open_list # {}
    /\ LET current == heappop(open_list)[2]
           s == Neighbors([open_list |-> open_list \ {heappop(open_list)},
                           g_score |-> g_score,
                           f_score |-> f_score,
                           parent |-> parent],
                          closed_set \cup {current}, current, 1)
       IN
        /\ current # goal
        /\ closed_set' = closed_set \cup {current}
        /\ open_list' = s.open_list
        /\ g_score' = s.g_score
        /\ f_score' = s.f_score
        /\ parent' = s.parent
    /\ UNCHANGED <<grid, start, goal, astar_pc, path>>
    /\ UNCHANGED <<instance_vars, two_vars, bfs_vars, chain_vars, game_vars>>

\* open_list is empty: return None
AstarReturnNone ==
    /\ astar_pc = "loop"
    /\ open_list = {}
    /\ astar_pc' = "None"
    /\ UNCHANGED <<grid, start, goal, open_list, closed_set, g_score, f_score,
                   parent, path>>
    /\ UNCHANGED <<instance_vars, two_vars, bfs_vars, chain_vars, game_vars>>

AstarNext ==
    \/ AstarReturnPath
    \/ AstarExpand
    \/ AstarReturnNone

AstarSpec == AstarInit /\ [][AstarNext]_vars

\* ---- breadth-first search of the 8-puzzle (src/bfs.py) -------------------
\* range(3) and `< 3` in PuzzleNode: the side of the board
Side == 3
\* bound of the boards explored: besides the blank (0) a board carries the
\* tile 1, and the tile 2 on at most MaxMarked cells
MaxMarked == 1

Index == 0..(Side - 1)
Positions == Index \X Index

\* for i in range(3): for j in range(3): if self.state[i][j] == 0: return (i, j)
get_blank_position(state) ==
    CHOOSE p \in Positions :
        /\ state[p[1]][p[2]] = 0
        /\ \A q \in Positions :
              (q[1] < p[1] \/ (q[1] = p[1] /\ q[2] < p[2])) => state[q[1]][q[2]] # 0

\* the list `directions` of get_possible_moves
move_directionsMislabelled ==
    << <<"Down", -1, 0>>, <<"Up", 1, 0>>, <<"Left", 0, -1>>, <<"Right", 0, 1>> >>
move_directions ==
    << <<"Up", -1, 0>>, <<"Down", 1, 0>>, <<"Left", 0, -1>>, <<"Right", 0, 1>> >>

\* the list of (direction, new_i, new_j) with the target inside the board
get_possible_moves(state) ==
    LET blank == get_blank_position(state)
        targets == [k \in 1..Len(move_directions) |->
                        <<move_directions[k][1],
                          blank[1] + move_directions[k][2],
                          blank[2] + move_directions[k][3]>>]
    IN SelectSeq(targets, LAMBDA m :
            0 <= m[2] /\ m[2] < Side /\ 0 <= m[3] /\ m[3] < Side)

\* deep copy of the state with the blank and the target cell swapped
get_new_state(state, move) ==
    LET blank == get_blank_position(state) IN
    [i \in Index |-> [j \in Index |->
        IF <<i, j>> = blank THEN state[move[2]][move[3]]
        ELSE IF <<i, j>> = <<move[2], move[3]>> THEN state[blank[1]][blank[2]]
        ELSE state[i][j]]]

\* PuzzleNode(state, parent, move, depth); parent is <<>> for None and
\* <<node>> for a node
PuzzleNode(state, parent_node, move, depth) ==
    [state |-> state, parent |-> parent_node, move |-> move, depth |-> depth]

\* __eq__ / __hash__: nodes are equal when their states are
NodeEq(a, b) == a.state = b.state
\* new_node in visited
InVisitedSameNode(vis, node) == node \in vis
InVisited(vis, node) == \E v \in vis : NodeEq(v, node)

initial_node == PuzzleNode(initial_state, <<>>, "None", 0)
goal_node == PuzzleNode(goal_state, <<>>, "None", 0)

\* the for loop over the moves of current_node from move k on, run on the
\* record s = [queue, visited, found]; found is <<new_node>> once the loop
\* has returned new_node
RECURSIVE ForMoves(_, _, _, _)
ForMoves(s, current_node, moves, k) ==
    IF k > Len(moves) \/ s.found # <<>> THEN s
    ELSE
      LET new_node == PuzzleNode(get_new_state(current_node.state, moves[k]),
                                 <<current_node>>, moves[k][1],
                                 current_node.depth + 1)
      IN
        IF ~ InVisited(s.visited, new_node)
        THEN IF NodeEq(new_node, goal_node)
             THEN [queue |-> s.queue,
                   visited |-> s.visited \cup {new_node},
                   found |-> <<new_node>>]
             ELSE ForMoves([queue |-> Append(s.queue, new_node),
                            visited |-> s.visited \cup {new_node},
                            found |-> <<>>],
                           current_node, moves, k + 1)
        ELSE ForMoves(s, current_node, moves, k + 1)

\* a board with the blank at `blank`, the tile 2 on the cells `marked` and the
\* tile 1 elsewhere
Board(blank, marked) ==
    [i \in Index |-> [j \in Index |->
        IF <<i, j>> = blank THEN 0 ELSE IF <<i, j>> \in marked THEN 2 ELSE 1]]

BoardsWithBlankAt(blank, cells) ==
    {Board(blank, marked) : marked \in
        {m \in SUBSET (cells \ {blank}) : Cardinality(m) <= MaxMarked}}

\* the goals explored carry their tiles 2 in the first row, the initial
\* states explored carry theirs below it
FirstRow == {0} \X Index
LowerRows == Positions \ FirstRow

\* main(): the blank of the initial state is in the centre, the blank of the
\* goal state in the last cell
reference_initial == << <<1, 2, 3>>, <<4, 0, 6>>, <<7, 5, 8>> >>
reference_goal == << <<1, 2, 3>>, <<4, 5, 6>>, <<7, 8, 0>> >>
ZeroBased(rows3) == [i \in Index |-> [j \in Index |-> rows3[i + 1][j + 1]]]

\* the state on entry to solve_puzzle(initial_state, goal_state)
PuzzleInit ==
    /\ subject_periods = [s \in subjects |-> 0]
    /\ teacher_subjects = [t \in teachers |-> {}]
    /\ classrooms = rooms
    /\ assignment = {} /\ stack = <<>> /\ pc = "idle" /\ retval = FALSE
    /\ result = "none" /\ store_op = NoOp /\ report = NoValue
    /\ TwoIdle /\ AstarIdle /\ ChainIdle /\ GameIdle
    /\ \/ /\ initial_state \in BoardsWithBlankAt(<<1, 1>>, LowerRows)
          /\ goal_state \in BoardsWithBlankAt(<<Side - 1, Side - 1>>, FirstRow)
                                \cup {initial_state}
       \/ /\ initial_state = ZeroBased(reference_initial)
          /\ goal_state = ZeroBased(reference_goal)
    /\ queue = <<>>
    /\ visited = {}
    /\ bfs_pc = "entry"
    /\ solution = <<>>

\* if initial_node == goal_node: return initial_node
PuzzleReturnInitial ==
    /\ bfs_pc = "entry"
    /\ NodeEq(initial_node, goal_node)
    /\ solution' = <<initial_node>>
    /\ bfs_pc' = "returned"
    /\ UNCHANGED <<initial_state, goal_state, queue, visited>>
    /\ UNCHANGED <<instance_vars, two_vars, astar_vars, chain_vars, game_vars>>

\* queue = deque([initial_node]); visited = set([initial_node])
PuzzleEnterLoop ==
    /\ bfs_pc = "entry"
    /\ ~ NodeEq(initial_node, goal_node)
    /\ queue' = <<initial_node>>
    /\ visited' = {initial_node}
    /\ bfs_pc' = "loop"
    /\ UNCHANGED <<initial_state, goal_state, solution>>
    /\ UNCHANGED <<instance_vars, two_vars, astar_vars, chain_vars, game_vars>>

\* one iteration of `while queue:`: popleft and the loop over the moves
PuzzleIterate ==
    /\ bfs_pc = "loop"
    /\ queue # <<>>
    /\ LET current_node == Head(queue)
           s == ForMoves([queue |-> Tail(queue), visited |-> visited, found |-> <<>>],
                         current_node, get_possible_moves(current_node.state), 1)
       IN
        /\ queue' = s.queue
        /\ visited' = s.visited
        /\ solution' = s.found
        /\ bfs_pc' = IF s.found # <<>> THEN "returned" ELSE "loop"
    /\ UNCHANGED <<initial_state, goal_state>>
    /\ UNCHANGED <<instance_vars, two_vars, astar_vars, chain_vars, game_vars>>

\* the queue is empty: return None
PuzzleReturnNone ==
    /\ bfs_pc = "loop"
    /\ queue = <<>>
    /\ solution' = <<>>
    /\ bfs_pc' = "returned"
    /\ UNCHANGED <<initial_state, goal_state, queue, visited>>
    /\ UNCHANGED <<instance_vars, two_vars, astar_vars, chain_vars, game_vars>>

PuzzleNext ==
    \/ PuzzleReturnInitial
    \/ PuzzleEnterLoop
    \/ PuzzleIterate
    \/ PuzzleReturnNone

PuzzleSpec == PuzzleInit /\ [][PuzzleNext]_vars

\* ---- forward chaining (src/forward_chaining_expert_system.py) --------------
\* Fact(name, value=True); two facts are equal when name and value are equal
Fact(name, value) == [name |-> name, value |-> value]

\* Rule(conditions, conclusion, description): `used` starts False.  The
\* description is only printed; the trace names a rule by its position in
\* self.rules instead.
Rule(conditions, conclusion) ==
    [conditions |-> conditions, conclusion |-> conclusion, used |-> FALSE]

\* can_fire_rule(rule): the rule has not been used and every condition is in
\* self.facts
can_fire_ruleReusable(rule) ==
    \A i \in 1..Len(rule.conditions) : rule.conditions[i] \in facts
can_fire_rule(rule) ==
    /\ ~rule.used
    /\ \A i \in 1..Len(rule.conditions) : rule.conditions[i] \in facts

\* the lines appended to self.trace
TraceAdded(fact) == <<"Added fact", fact>>
TraceFired(i) == <<"Fired rule", i>>
TraceIteration(n) == <<"Iteration", n>>
TraceNoMore == <<"No more rules can be fired.", NoValue>>

MaxRules == 2

\* the rule bases and initial facts explored: every list of at most MaxRules
\* rules over three fact names, where a condition list is any selection of
\* the names (all() makes order and repetition of conditions irrelevant), and
\* the demonstration of run_demo() restricted to the rules it fires
fact_names == <<"very_slow_performance", "high_cpu_usage", "performance_issue">>
ConditionList(S) ==
    LET chosen == SelectSeq(fact_names, LAMBDA n : n \in S)
    IN  [i \in 1..Len(chosen) |-> Fact(chosen[i], TRUE)]
Range(f) == {f[i] : i \in DOMAIN f}
RuleSet ==
    {Rule(ConditionList(S), Fact(n, TRUE)) :
        S \in SUBSET Range(fact_names), n \in Range(fact_names)}
RuleLists == UNION {[1..n -> RuleSet] : n \in 0..MaxRules}
\* the rules treat the three names alike, so the initial fact sets are taken
\* up to renaming: none, one or two of the names asserted, and the third
\* name present with the value False
InitialFacts ==
    { {},
      {Fact(fact_names[1], TRUE)},
      {Fact(fact_names[1], TRUE), Fact(fact_names[2], TRUE)},
      {Fact(fact_names[1], TRUE), Fact(fact_names[2], TRUE),
       Fact(fact_names[3], FALSE)} }
demo_rules ==
    << Rule(<<Fact("computer_running", TRUE),
              Fact("very_slow_performance", TRUE)>>,
            Fact("performance_issue", TRUE)),
       Rule(<<Fact("performance_issue", TRUE), Fact("high_cpu_usage", TRUE)>>,
            Fact("cpu_overload", TRUE)),
       Rule(<<Fact("cpu_overload", TRUE)>>,
            Fact("close_unnecessary_programs", TRUE)) >>
demo_facts ==
    {Fact("computer_running", TRUE), Fact("very_slow_performance", TRUE),
     Fact("high_cpu_usage", TRUE)}

\* the facts of a set in one order, as add_fact() was called for them
RECURSIVE AddedIn(_)
AddedIn(fs) ==
    IF fs = {} THEN <<>>
    ELSE LET f == CHOOSE x \in fs : TRUE
         IN  <<TraceAdded(f)>> \o AddedIn(fs \ {f})

\* the engine after add_rule() for every rule and add_fact() for every
\* initial fact, before forward_chain() is called
ChainInit ==
    /\ subject_periods = [s \in subjects |-> 0]
    /\ teacher_subjects = [t \in teachers |-> {}]
    /\ classrooms = rooms
    /\ assignment = {} /\ stack = <<>> /\ pc = "idle" /\ retval = FALSE
    /\ result = "none" /\ store_op = NoOp /\ report = NoValue
    /\ TwoIdle /\ AstarIdle /\ PuzzleIdle /\ GameIdle
    /\ \/ rules \in RuleLists /\ facts \in InitialFacts
       \/ rules = demo_rules /\ facts = demo_facts
    /\ fired_rules = <<>>
    /\ trace = AddedIn(facts)
    /\ changed = FALSE /\ iteration = 0 /\ rule_index = 0
    /\ chain_pc = "entry"

\* forward_chain(): changed = True; iteration = 0
ForwardChain ==
    /\ chain_pc = "entry"
    /\ changed' = TRUE
    /\ iteration' = 0
    /\ chain_pc' = "while"
    /\ UNCHANGED <<facts, rules, fired_rules, trace, rule_index>>
    /\ UNCHANGED <<instance_vars, two_vars, astar_vars, bfs_vars, game_vars>>

\* while changed: changed = False; iteration += 1; the iteration header is
\* appended to the trace; the for loop starts at the first rule
WhileEnter ==
    /\ chain_pc = "while"
    /\ changed
    /\ changed' = FALSE
    /\ iteration' = iteration + 1
    /\ trace' = Append(trace, TraceIteration(iteration + 1))
    /\ rule_index' = 1
    /\ chain_pc' = "for"
    /\ UNCHANGED <<facts, rules, fired_rules>>
    /\ UNCHANGED <<instance_vars, two_vars, astar_vars, bfs_vars, game_vars>>

\* a firing that does not report the change to the while loop
FireRuleUnflagged ==
    /\ chain_pc = "for"
    /\ rule_index <= Len(rules)
    /\ can_fire_rule(rules[rule_index])
    /\ facts' = facts \cup {rules[rule_index].conclusion}
    /\ rules' = [rules EXCEPT ![rule_index].used = TRUE]
    /\ fired_rules' = Append(fired_rules, rule_index)
    /\ trace' = trace \o <<TraceAdded(rules[rule_index].conclusion),
                           TraceFired(rule_index)>>
    /\ rule_index' = rule_index + 1
    /\ UNCHANGED <<changed, iteration, chain_pc>>
    /\ UNCHANGED <<instance_vars, two_vars, astar_vars, bfs_vars, game_vars>>

\* for rule in self.rules: if self.fire_rule(rule): changed = True
\* fire_rule() of a rule that can fire: add_fact(rule.conclusion) adds the
\* fact and a trace line, rule.used = True, the rule is appended to
\* fired_rules, a second trace line is appended, True is returned
FireRule ==
    /\ chain_pc = "for"
    /\ rule_index <= Len(rules)
    /\ can_fire_rule(rules[rule_index])
    /\ facts' = facts \cup {rules[rule_index].conclusion}
    /\ rules' = [rules EXCEPT ![rule_index].used = TRUE]
    /\ fired_rules' = Append(fired_rules, rule_index)
    /\ trace' = trace \o <<TraceAdded(rules[rule_index].conclusion),
                           TraceFired(rule_index)>>
    /\ changed' = TRUE
    /\ rule_index' = rule_index + 1
    /\ UNCHANGED <<iteration, chain_pc>>
    /\ UNCHANGED <<instance_vars, two_vars, astar_vars, bfs_vars, game_vars>>

\* fire_rule() of a rule that cannot fire returns False
SkipRule ==
    /\ chain_pc = "for"
    /\ rule_index <= Len(rules)
    /\ ~can_fire_rule(rules[rule_index])
    /\ rule_index' = rule_index + 1
    /\ UNCHANGED <<facts, rules, fired_rules, trace, changed, iteration,
                   chain_pc>>
    /\ UNCHANGED <<instance_vars, two_vars, astar_vars, bfs_vars, game_vars>>

\* the for loop is exhausted: if not changed, the closing trace line is
\* appended; control returns to the test of the while loop
ForExit ==
    /\ chain_pc = "for"
    /\ rule_index > Len(rules)
    /\ trace' = IF changed THEN trace ELSE Append(trace, TraceNoMore)
    /\ chain_pc' = "while"
    /\ UNCHANGED <<facts, rules, fired_rules, changed, iteration, rule_index>>
    /\ UNCHANGED <<instance_vars, two_vars, astar_vars, bfs_vars, game_vars>>

\* the while loop ends when changed is False; forward_chain() returns
WhileExit ==
    /\ chain_pc = "while"
    /\ ~changed
    /\ chain_pc' = "done"
    /\ UNCHANGED <<facts, rules, fired_rules, trace, changed, iteration,
                   rule_index>>
    /\ UNCHANGED <<instance_vars, two_vars, astar_vars, bfs_vars, game_vars>>

ChainNext ==
    \/ ForwardChain
    \/ WhileEnter
    \/ FireRule
    \/ SkipRule
    \/ ForExit
    \/ WhileExit

ChainSpec == ChainInit /\ [][ChainNext]_vars

\* forward_chain() runs to completion once called: it is one sequential loop
ChainFairSpec == ChainSpec /\ WF_vars(ChainNext)

\* ---- tic-tac-toe by minimax (src/minmax.py) -------------------------------
MaxEmptyCells == 1

\* math.inf: greater than every score of evaluate()
inf == 11

human == "X"
ai == "O"
board_range == 0..2
Marks == {" ", human, ai}
cell_order == [k \in 1..9 |-> <<(k - 1) \div 3, (k - 1) % 3>>]
empty_board == [i \in board_range |-> [j \in board_range |-> " "]]

\* is_winner(player): a full row, column or diagonal
is_winner(b, player) ==
    \/ \E i \in board_range : \A j \in board_range : b[i][j] = player
    \/ \E j \in board_range : \A i \in board_range : b[i][j] = player
    \/ \A i \in board_range : b[i][i] = player
    \/ \A i \in board_range : b[i][2 - i] = player

is_board_full(b) == \A i \in board_range : \A j \in board_range : b[i][j] # " "

is_game_over(b) ==
    is_winner(b, human) \/ is_winner(b, ai) \/ is_board_full(b)

\* get_available_moves(): the empty cells, row by row
get_available_moves(b) ==
    SelectSeq(cell_order, LAMBDA m : b[m[1]][m[2]] = " ")

\* self.board[row][col] = mark
Put(b, m, mark) == [b EXCEPT ![m[1]][m[2]] = mark]

\* make_move(row, col, player): only an empty cell is written
make_move(b, m, player) == IF b[m[1]][m[2]] = " " THEN Put(b, m, player) ELSE b

\* evaluate(): 10 when the AI has won, -10 when the human has, else 0
evaluateIndifferent(b) == 0
evaluate(b) ==
    IF is_winner(b, ai) THEN 10
    ELSE IF is_winner(b, human) THEN -10
    ELSE 0

Max(x, y) == IF x >= y THEN x ELSE y
Min(x, y) == IF x <= y THEN x ELSE y

\* the activation record of minimax(depth, is_maximizing, alpha, beta) past
\* its base case, or of find_best_move(): `moves` is what is left of the
\* list the for loop iterates over, `cur` the cell of the trial move that is
\* on the board, `best` is max_eval / min_eval / best_value, `move` is
\* best_move, `cut` tells that the loop was left by break.  The record also
\* remembers the board the call was entered with (`entry`), which the
\* program does not store.
Frame(fn, depth, is_maximizing, alpha, beta, b) ==
    [fn |-> fn, depth |-> depth, is_maximizing |-> is_maximizing,
     alpha |-> alpha, beta |-> beta,
     moves |-> get_available_moves(b),
     cur |-> <<>>,
     best |-> IF is_maximizing THEN -inf ELSE inf,
     move |-> <<>>,
     cut |-> FALSE,
     entry |-> b]
FindFrame(b) == Frame("find_best_move", 0, TRUE, -inf, inf, b)

TopFrame == frames[Len(frames)]
\* the mark a frame's trial moves put on the board
Mover(f) == IF f.is_maximizing THEN ai ELSE human
\* the frame of the call a frame makes for its trial move
Callee(f, b) ==
    IF f.fn = "find_best_move"
    THEN Frame("minimax", 0, FALSE, -inf, inf, b)
    ELSE Frame("minimax", f.depth + 1, ~f.is_maximizing, f.alpha, f.beta, b)

\* the boards a call is entered with directly: the board of
\* demonstrate_minimax() and every board with at most MaxEmptyCells empty
\* cells, whatever its marks
demonstration_board ==
    [i \in board_range |->
        [j \in board_range |->
            IF <<i, j>> \in {<<0, 0>>, <<1, 1>>} THEN human
            ELSE IF <<i, j>> \in {<<0, 1>>, <<2, 0>>} THEN ai
            ELSE " "]]
EntryBoards ==
    {b \in [board_range -> [board_range -> Marks]] :
        Len(get_available_moves(b)) <= MaxEmptyCells}
    \cup {demonstration_board}

\* play_game() on a new TicTacToe, demonstrate_minimax() with a board set up
\* by hand, or a call of minimax() on such a board
GameInit ==
    /\ subject_periods = [s \in subjects |-> 0]
    /\ teacher_subjects = [t \in teachers |-> {}]
    /\ classrooms = rooms
    /\ assignment = {} /\ stack = <<>> /\ pc = "idle" /\ retval = FALSE
    /\ result = "none" /\ store_op = NoOp /\ report = NoValue
    /\ TwoIdle /\ AstarIdle /\ PuzzleIdle /\ ChainIdle
    /\ \/ /\ game_mode = "play_game"
          /\ board = empty_board
          /\ game_pc = IF is_game_over(board) THEN "over" ELSE "human"
       \/ /\ game_mode \in {"find_best_move", "minimax"}
          /\ board \in EntryBoards
          /\ game_pc = "entry"
    /\ frames = <<>>
    /\ game_ret = 0
    /\ best_move = <<>>

\* play_game(): the human enters an empty cell; make_move() writes it; if the
\* game is over the loop is left, otherwise find_best_move() is entered
HumanMove ==
    /\ game_pc = "human"
    /\ \E m \in Range(get_available_moves(board)) :
          LET b == make_move(board, m, human)
          IN  /\ board' = b
              /\ IF is_game_over(b)
                 THEN game_pc' = "over" /\ frames' = frames
                 ELSE game_pc' = "loop" /\ frames' = <<FindFrame(b)>>
    /\ UNCHANGED <<game_ret, best_move, game_mode>>
    /\ UNCHANGED <<instance_vars, two_vars, astar_vars, bfs_vars, chain_vars>>

\* find_best_move() called on a board set up by hand
FindBestMoveCall ==
    /\ game_pc = "entry"
    /\ game_mode = "find_best_move"
    /\ frames' = <<FindFrame(board)>>
    /\ game_pc' = "loop"
    /\ UNCHANGED <<board, game_ret, best_move, game_mode>>
    /\ UNCHANGED <<instance_vars, two_vars, astar_vars, bfs_vars, chain_vars>>

\* minimax(0, is_maximizing) called on a board set up by hand
MinimaxCall ==
    /\ game_pc = "entry"
    /\ game_mode = "minimax"
    /\ \E is_maximizing \in BOOLEAN :
          IF is_game_over(board)
          THEN /\ game_ret' = evaluate(board)
               /\ game_pc' = "over"
               /\ frames' = frames
          ELSE /\ frames' = <<Frame("minimax", 0, is_maximizing,
                                    -inf, inf, board)>>
               /\ game_pc' = "loop"
               /\ game_ret' = game_ret
    /\ UNCHANGED <<board, best_move, game_mode>>
    /\ UNCHANGED <<instance_vars, two_vars, astar_vars, bfs_vars, chain_vars>>

\* the next trial move of a loop is put on the board and minimax() is called
\* for it; the game is over there: the call returns evaluate()
TryLeaf ==
    /\ game_pc = "loop"
    /\ TopFrame.moves # <<>> /\ ~TopFrame.cut
    /\ LET m == Head(TopFrame.moves)
           b == Put(board, m, Mover(TopFrame))
       IN  /\ is_game_over(b)
           /\ board' = b
           /\ frames' = [frames EXCEPT ![Len(frames)] =
                            [@ EXCEPT !.moves = Tail(@), !.cur = m]]
           /\ game_ret' = evaluate(b)
           /\ game_pc' = "ret"
    /\ UNCHANGED <<best_move, game_mode>>
    /\ UNCHANGED <<instance_vars, two_vars, astar_vars, bfs_vars, chain_vars>>

\* the same, and the game is not over there: the call enters its own loop
TryInner ==
    /\ game_pc = "loop"
    /\ TopFrame.moves # <<>> /\ ~TopFrame.cut
    /\ LET m == Head(TopFrame.moves)
           b == Put(board, m, Mover(TopFrame))
       IN  /\ ~is_game_over(b)
           /\ board' = b
           /\ frames' = Append([frames EXCEPT ![Len(frames)] =
                                   [@ EXCEPT !.moves = Tail(@), !.cur = m]],
                               Callee(TopFrame, b))
    /\ UNCHANGED <<game_ret, best_move, game_mode, game_pc>>
    /\ UNCHANGED <<instance_vars, two_vars, astar_vars, bfs_vars, chain_vars>>

\* minimax() after the recursive call: the trial move is undone, max_eval and
\* alpha (min_eval and beta) are updated, and the loop is left by break when
\* beta <= alpha
ResumeMinimaxKeepOnCut ==
    /\ game_pc = "ret"
    /\ TopFrame.fn = "minimax"
    /\ LET f == TopFrame
           best == IF f.is_maximizing THEN Max(f.best, game_ret)
                   ELSE Min(f.best, game_ret)
           alpha == IF f.is_maximizing THEN Max(f.alpha, game_ret) ELSE f.alpha
           beta == IF f.is_maximizing THEN f.beta ELSE Min(f.beta, game_ret)
       IN  /\ board' = IF beta <= alpha THEN board ELSE Put(board, f.cur, " ")
           /\ frames' = [frames EXCEPT ![Len(frames)] =
                 [f EXCEPT !.cur = <<>>, !.best = best, !.alpha = alpha,
                           !.beta = beta, !.cut = (beta <= alpha)]]
    /\ game_pc' = "loop"
    /\ UNCHANGED <<game_ret, best_move, game_mode>>
    /\ UNCHANGED <<instance_vars, two_vars, astar_vars, bfs_vars, chain_vars>>
ResumeMinimax ==
    /\ game_pc = "ret"
    /\ TopFrame.fn = "minimax"
    /\ LET f == TopFrame
           best == IF f.is_maximizing THEN Max(f.best, game_ret)
                   ELSE Min(f.best, game_ret)
           alpha == IF f.is_maximizing THEN Max(f.alpha, game_ret) ELSE f.alpha
           beta == IF f.is_maximizing THEN f.beta ELSE Min(f.beta, game_ret)
       IN  /\ board' = Put(board, f.cur, " ")
           /\ frames' = [frames EXCEPT ![Len(frames)] =
                 [f EXCEPT !.cur = <<>>, !.best = best, !.alpha = alpha,
                           !.beta = beta, !.cut = (beta <= alpha)]]
    /\ game_pc' = "loop"
    /\ UNCHANGED <<game_ret, best_move, game_mode>>
    /\ UNCHANGED <<instance_vars, two_vars, astar_vars, bfs_vars, chain_vars>>

\* find_best_move() after the call of minimax(): the trial move is undone;
\* if move_value > best_value the move becomes the best move
ResumeFind ==
    /\ game_pc = "ret"
    /\ TopFrame.fn = "find_best_move"
    /\ LET f == TopFrame
       IN  /\ board' = Put(board, f.cur, " ")
           /\ frames' = [frames EXCEPT ![Len(frames)] =
                 IF game_ret > f.best
                 THEN [f EXCEPT !.cur = <<>>, !.best = game_ret, !.move = f.cur]
                 ELSE [f EXCEPT !.cur = <<>>]]
    /\ game_pc' = "loop"
    /\ UNCHANGED <<game_ret, best_move, game_mode>>
    /\ UNCHANGED <<instance_vars, two_vars, astar_vars, bfs_vars, chain_vars>>

\* minimax() returns max_eval / min_eval when its loop has ended
MinimaxReturn ==
    /\ game_pc = "loop"
    /\ TopFrame.fn = "minimax"
    /\ TopFrame.moves = <<>> \/ TopFrame.cut
    /\ game_ret' = TopFrame.best
    /\ frames' = SubSeq(frames, 1, Len(frames) - 1)
    /\ game_pc' = IF Len(frames) = 1 THEN "over" ELSE "ret"
    /\ UNCHANGED <<board, best_move, game_mode>>
    /\ UNCHANGED <<instance_vars, two_vars, astar_vars, bfs_vars, chain_vars>>

\* find_best_move() returns best_move when its loop has ended.  play_game()
\* unpacks it (None cannot be unpacked), plays it with make_move() and tests
\* the loop condition; demonstrate_minimax() plays it if it is not None.
FindReturn ==
    /\ game_pc = "loop"
    /\ TopFrame.fn = "find_best_move"
    /\ TopFrame.moves = <<>>
    /\ best_move' = TopFrame.move
    /\ frames' = SubSeq(frames, 1, Len(frames) - 1)
    /\ IF TopFrame.move = <<>>
       THEN /\ board' = board
            /\ game_pc' = IF game_mode = "play_game" THEN "crashed" ELSE "over"
       ELSE /\ board' = make_move(board, TopFrame.move, ai)
            /\ game_pc' = IF game_mode = "play_game" /\ ~is_game_over(board')
                          THEN "human" ELSE "over"
    /\ UNCHANGED <<game_ret, game_mode>>
    /\ UNCHANGED <<instance_vars, two_vars, astar_vars, bfs_vars, chain_vars>>

GameNext ==
    \/ HumanMove
    \/ FindBestMoveCall
    \/ MinimaxCall
    \/ TryLeaf
    \/ TryInner
    \/ ResumeMinimax
    \/ ResumeFind
    \/ MinimaxReturn
    \/ FindReturn

GameSpec == GameInit /\ [][GameNext]_vars

\* ---- vocabulary of the properties ---------------------------------------
NonNegativeQuotas == \A s \in subjects : subject_periods[s] >= 0
Count(s) == get_subject_count(assignment, s)
Returned(r) == pc = "done" /\ result = r
Covered(s) == \E t \in teachers : s \in teacher_subjects[t]
SlotSet == days \X time_slots

\* C1: whenever solve() returns Success on a problem with non-negative
\* quotas, every subject is bound to exactly as many slots as its quota.
ExactQuotaOnSuccess ==
    (Returned("Success") /\ NonNegativeQuotas)
        => \A s \in subjects : Count(s) = subject_periods[s]

ExactQuotaOnSuccessWitness ==
    /\ Returned("Success")
    /\ \A s \in subjects : subject_periods[s] >= 1
    /\ Cardinality(assignment) >= 3

\* C2: at every moment of solve(), the teacher of every binding of the
\* assignment is capable of the subject of that binding.
CapabilityInvariant ==
    \A b \in assignment : b[2][1] \in teacher_subjects[b[2][2]]

CapabilityInvariantWitness ==
    /\ pc = "call"
    /\ Cardinality(assignment) >= 2
    /\ \E b \in assignment : \E t \in teachers :
            t # b[2][2] /\ b[2][1] \notin teacher_subjects[t]

\* C3: at every moment of solve(), a subject with a non-negative quota is
\* bound to at most quota slots, and no candidate waiting to be tried at the
\* level that is choosing names a subject that has reached its quota.
QuotaNeverExceeded ==
    /\ \A s \in subjects :
            subject_periods[s] >= 0 => Count(s) <= subject_periods[s]
    /\ pc = "loop" =>
            \A v \in Top.domain_values : Count(v[1]) < subject_periods[v[1]]

QuotaNeverExceededWitness ==
    /\ pc = "loop"
    /\ Top.domain_values # {}
    /\ \E s \in subjects : subject_periods[s] >= 1 /\ Count(s) = subject_periods[s]

\* C4: at every moment of solve(), a slot carries at most one binding, so no
\* two bindings of one slot share a teacher or a classroom, and the binding
\* installed by every level of the search is still the one its slot carries
\* (no level has placed a second activity on a slot bound by another).
NoDoubleBooking ==
    /\ \A b1, b2 \in assignment : b1[1] = b2[1] => b1 = b2
    /\ \A b1, b2 \in assignment :
            (b1 # b2 /\ b1[1] = b2[1])
                => (b1[2][2] # b2[2][2] /\ b1[2][3] # b2[2][3])
    /\ \A i \in 1..Len(stack) :
            stack[i].cur # NoValue => <<stack[i].slot, stack[i].cur>> \in assignment

NoDoubleBookingWitness ==
    /\ pc = "call"
    /\ Cardinality(assignment) >= 2
    /\ \E b1, b2 \in assignment :
            b1[1] # b2[1] /\ b1[2][2] = b2[2][2] /\ b1[2][3] = b2[2][3]

\* C5: on an infeasible problem (the quotas sum to more than the number of
\* slots, or a subject with a positive quota has no capable teacher) solve()
\* returns Exhausted, whatever the order in which candidates are tried.
Infeasible ==
    \/ SumOver(subject_periods, subjects) > NumSlots
    \/ \E s \in subjects : subject_periods[s] > 0 /\ ~ Covered(s)

InfeasibleIsExhausted ==
    (pc = "done" /\ Infeasible) => result = "Exhausted"

InfeasibleIsExhaustedWitness ==
    /\ Returned("Exhausted")
    /\ SumOver(subject_periods, subjects) > NumSlots
    /\ \A s \in subjects : Covered(s)

\* C7: under FairSpec, every solve() that has started returns, with Success
\* or Exhausted, and every active call of backtrack() has strictly fewer
\* unassigned slots than its caller.
StrictlyFewerUnassigned ==
    \A i \in 2..Len(stack) :
        Len(stack[i].unassigned) < Len(stack[i - 1].unassigned)

SolveTerminates ==
    /\ (pc = "call") ~> (Returned("Success") \/ Returned("Exhausted"))
    /\ [] StrictlyFewerUnassigned

SolveTerminatesWitness ==
    /\ pc = "call"
    /\ Len(stack) >= 3
    /\ Len(stack[3].unassigned) < Len(stack[1].unassigned)

\* C8: on a problem with non-negative quotas solve() returns Exhausted
\* exactly when no mapping from a subset of the slots to activities with a
\* capable teacher has per-subject counts equal to the quotas.
Activities ==
    {v \in subjects \X teachers \X classrooms : v[1] \in teacher_subjects[v[2]]}

\* The per-subject counts of the mappings from a subset of the first k slots
\* to activities: slot k is left free, or bound to an activity of subject s.
RECURSIVE CountVectors(_)
CountVectors(k) ==
    IF k = 0 THEN {[s \in subjects |-> 0]}
    ELSE LET prev == CountVectors(k - 1) IN
         prev \cup {[c EXCEPT ![s] = @ + 1] :
                        c \in prev, s \in {v[1] : v \in Activities}}

ExistsExactMapping == subject_periods \in CountVectors(NumSlots)

ExhaustedIffNoMapping ==
    (pc = "done" /\ NonNegativeQuotas)
        => ((result = "Exhausted") <=> ~ ExistsExactMapping)

ExhaustedIffNoMappingWitness ==
    /\ Returned("Exhausted")
    /\ NonNegativeQuotas
    /\ SumOver(subject_periods, subjects) <= NumSlots
    /\ \E s \in subjects : subject_periods[s] > 0 /\ Covered(s)

\* C9: whenever solve() returns Exhausted the assignment is empty.
NoPartialStateOnFailure ==
    Returned("Exhausted") => assignment = {}

NoPartialStateOnFailureWitness ==
    /\ Returned("Exhausted")
    /\ get_domain_values({}, all_slots[1]) # {}

\* C10: is_complete() is true exactly when every subject is bound to as
\* many slots as its quota.
IsCompleteIsEquality ==
    is_complete(assignment)
        <=> \A s \in subjects : Count(s) = subject_periods[s]

\* C11: is_valid_assignment() returns false for every bound slot and every
\* activity with a capable teacher.
IsLegalRefusesBoundSlot ==
    \A b \in assignment : \A v \in Activities :
        ~ is_valid_assignment(assignment, b[1], v[1], v[2], v[3])

\* C12: a store into the assignment for a slot that is already bound raises.
BindOnBoundSlotFails ==
    (store_op.op = "bind" /\ store_op.bound) => store_op.raised

\* C13: a delete of a slot that is not bound raises and ends the program;
\* solve() never does it: no crash happens inside the search, and the
\* binding a level is about to remove is the one its iteration installed.
UnbindOnUnboundSlotFails ==
    /\ (store_op.op = "del" /\ ~ store_op.bound)
            => (store_op.raised /\ pc = "crashed")
    /\ pc = "crashed" => stack = <<>>
    /\ (pc = "ret" /\ stack # <<>> /\ ~ retval)
            => (Top.cur # NoValue /\ <<Top.slot, Top.cur>> \in assignment)

UnbindOnUnboundSlotFailsWitness ==
    /\ pc = "crashed"
    /\ store_op.op = "del"
    /\ store_op.slot \notin Keys(assignment)
    /\ ~ store_op.bound

\* The assignment changes only through a store, a del or a reset.  A store or
\* a reset is followed by a state with pc = "idle" or "call"; a del in the
\* search restores the assignment that the frame was created from, which a
\* state with pc = "call" held.  So every assignment the program reaches is
\* held in a state where AssignmentEntered is true.
AssignmentEntered == pc \in {"idle", "call", "crashed"}

\* C14: for every slot and every assignment, the list returned by
\* get_domain_values has no repeated entry and its entries are exactly the
\* triples whose subject is below quota, whose teacher is capable of the
\* subject, and for which is_valid_assignment holds.
CandidateValuesExact ==
    LET below == {s \in subjects : Count(s) < subject_periods[s]} IN
    AssignmentEntered => \A slot \in SlotSet :
        LET values == domain_value_list(assignment, slot)
            entries == {values[i] : i \in 1..Len(values)}
        IN
        /\ Cardinality(entries) = Len(values)
        /\ entries =
            {v \in below \X teachers \X classrooms :
                /\ v[1] \in teacher_subjects[v[2]]
                /\ is_valid_assignment(assignment, slot, v[1], v[2], v[3])}

CandidateValuesExactWitness ==
    /\ pc = "idle"
    /\ \E t \in teachers : teacher_subjects[t] = {}
    /\ \E s \in subjects : subject_periods[s] >= 1 /\ Count(s) >= subject_periods[s]
    /\ \E slot \in Keys(assignment) :
            /\ domain_value_list(assignment, slot) # <<>>
            /\ Len(domain_value_list(assignment, slot))
                    < Len(domain_value_list({}, slot))

\* C15: solve() starts from the empty assignment whatever the assignment
\* held before, so every solve satisfies the capability, no-double-booking
\* and exact-quota properties and returns what a fresh instance returns.
Solvable == Positive(subject_periods) \in CountVectors(NumSlots)

InSolve == pc \in {"call", "loop", "ret", "done"}

SolveResets ==
    /\ [][(pc \in {"idle", "done"} /\ pc' = "call") => assignment' = {}]_vars
    /\ [](InSolve =>
            /\ CapabilityInvariant
            /\ NoDoubleBooking
            /\ ExactQuotaOnSuccess
            /\ pc = "done" => ((result = "Success") <=> Solvable))

SolveResetsWitness ==
    /\ pc = "call"
    /\ stack = <<>>
    /\ assignment = {}
    /\ store_op.op = "bind"
    /\ Solvable

ConfigurationError ==
    \/ \E t \in teachers : teacher_subjects[t] = {}
    \/ \E s \in subjects : subject_periods[s] <= 0
    \/ SumOver(subject_periods, subjects) > NumSlots

NoCrashOnConfigurationError ==
    /\ [](ConfigurationError => pc # "crashed")
    /\ (ConfigurationError /\ pc = "call")
            ~> (Returned("Success") \/ Returned("Exhausted"))

NoCrashOnConfigurationErrorWitness ==
    /\ Returned("Success")
    /\ assignment # {}
    /\ \E t \in teachers : teacher_subjects[t] = {}
    /\ \E s \in subjects : subject_periods[s] < 0

\* C18: when two solves run on two instances with their steps interleaved,
\* no step of one changes the assignment of the other, each solve satisfies
\* the capability, quota and no-double-booking invariants, returns Success
\* exactly when its own problem has an exact mapping, and terminates.
IndependentSolves ==
    /\ [][turn' = turn => other_assignment' = other_assignment]_vars
    /\ [](/\ CapabilityInvariant
          /\ QuotaNeverExceeded
          /\ NoDoubleBooking
          /\ ExactQuotaOnSuccess
          /\ NoPartialStateOnFailure
          /\ pc = "done" => (result = "Success" <=> ExistsExactMapping))
    /\ \A i \in {1, 2} :
          (turn = i /\ pc = "call") ~> (turn = i /\ pc = "done")

\* both solves are under way and the one executing has just bound a slot
\* that the other holds bound to another activity
IndependentSolvesWitness ==
    /\ pc = "call"
    /\ other.pc \in {"call", "loop"}
    /\ store_op.op = "bind"
    /\ \E b \in assignment : \E c \in other.assignment :
            b[1] = store_op.slot /\ c[1] = b[1] /\ c[2] # b[2]

\* ---- the search path -------------------------------------------------------
\* the position of a slot in the day-major, then period, enumeration
SlotPosition(slot) == (slot[1] - 1) * NumPeriods + slot[2]
Before(s1, s2) == SlotPosition(s1) < SlotPosition(s2)

\* the first slot of the enumeration that is not a key of a
IsFirstFree(a, slot) ==
    /\ slot \in SlotSet \ Keys(a)
    /\ \A earlier \in SlotSet : Before(earlier, slot) => earlier \in Keys(a)

\* a step of backtrack() that binds a slot
BindStep == pc = "loop" /\ pc' = "call"

\* C21: at every step of backtrack() that binds a slot, the slot bound is
\* the first slot, day-major then period, that is not in the assignment,
\* whatever the candidates of the level and whichever of them is drawn.
StaticSlotSelection ==
    [][BindStep =>
        \E slot \in SlotSet :
            /\ IsFirstFree(assignment, slot)
            /\ Keys(assignment') = Keys(assignment) \cup {slot}
            /\ store_op'.op = "bind" /\ store_op'.slot = slot]_vars

\* a second-day slot has been bound after a backtrack, at a level with more
\* than one candidate left
StaticSlotSelectionWitness ==
    /\ pc = "call"
    /\ store_op.op = "bind"
    /\ store_op.slot[1] = 2
    /\ stack # <<>>
    /\ Top.domain_values # {}
    /\ \E i \in 1..Len(stack) :
            Cardinality(stack[i].domain_values) + 1
                < Cardinality(get_domain_values(DictDel(assignment, stack[i].slot),
                                                stack[i].slot))

\* C22: every call of backtrack() that returns False leaves the assignment
\* equal to the assignment it was entered with: at each turn of the loop of a
\* level, and when the level returns False, the trial bindings of the level
\* have been removed.
UndoDiscipline ==
    /\ [](pc = "loop" => assignment = Top.entry)
    /\ [][(pc = "loop" /\ pc' = "ret") =>
                (~ retval' /\ assignment' = Top.entry)]_vars
    /\ [][(pc = "call" /\ pc' = "ret" /\ ~ retval') =>
                assignment' = assignment]_vars
    /\ [](\A i \in 1..Len(stack) :
            /\ stack[i].entry \subseteq assignment
            /\ (i < Len(stack) \/ pc # "loop") =>
                    DictSet(stack[i].entry, stack[i].slot, stack[i].cur)
                        \subseteq assignment)

\* a level entered with a non-empty assignment has tried and undone a
\* candidate and has candidates left
UndoDisciplineWitness ==
    /\ pc = "loop"
    /\ store_op.op = "del"
    /\ Top.entry # {}
    /\ Top.domain_values # {}
    /\ Len(stack) >= 2

\* C23: once a call of backtrack() has found is_complete() true, no unbind
\* and no bind is executed for the rest of the solve, every enclosing call
\* returns True, and solve() returns the assignment on which is_complete()
\* was found true.
SuccessPropagates ==
    /\ [][(pc = "call" /\ is_complete(assignment)) =>
                (pc' = "ret" /\ retval' /\ assignment' = assignment)]_vars
    /\ [][(pc = "ret" /\ retval) =>
                /\ assignment' = assignment
                /\ store_op' = store_op
                /\ retval'
                /\ pc' = (IF stack = <<>> THEN "done" ELSE "ret")
                /\ pc' = "done" => result' = "Success"]_vars
    /\ []((pc = "ret" /\ retval) => is_complete(assignment))
    /\ [](Returned("Success") => is_complete(assignment))

\* True is on its way up through two or more enclosing calls
SuccessPropagatesWitness ==
    /\ pc = "ret"
    /\ retval
    /\ Len(stack) >= 2
    /\ Cardinality(assignment) >= 3

\* C24: every binding installed by backtrack() is, when it is installed, a
\* member of get_domain_values(slot) evaluated on the current assignment: the
\* list computed before the loop of a level is not stale when its later
\* elements are tried after an undo.
BindingsFromFreshDomain ==
    /\ [][BindStep =>
            \E v \in get_domain_values(assignment, Top.slot) :
                assignment' = DictSet(assignment, Top.slot, v)]_vars
    /\ [](pc = "loop" =>
            Top.domain_values \subseteq get_domain_values(assignment, Top.slot))

\* a later element of a level's list is about to be tried after an undo, at a
\* level below the first
BindingsFromFreshDomainWitness ==
    /\ pc = "loop"
    /\ store_op.op = "del"
    /\ Len(stack) >= 2
    /\ Top.domain_values # {}
    /\ Top.domain_values # get_domain_values(assignment, Top.slot)

\* C25: when backtrack() is entered with every slot bound and is_complete()
\* false, it returns False without binding or unbinding anything, as a call
\* whose candidate set is empty does.
AllSlotsBound == Keys(assignment) = SlotSet

ReturnsFalseUntouched ==
    /\ pc' = "ret"
    /\ ~ retval'
    /\ assignment' = assignment
    /\ store_op' = store_op

AllBoundIncompleteFails ==
    /\ [][(pc = "call" /\ AllSlotsBound /\ ~ is_complete(assignment)) =>
                (ReturnsFalseUntouched /\ stack' = stack)]_vars
    /\ [][(pc = "loop" /\ Top.cur = NoValue /\ Top.domain_values = {}) =>
                (ReturnsFalseUntouched /\ stack' = Pop)]_vars

\* every slot is bound, the quotas are not met, and the call has returned
\* False with the bindings still in place
AllBoundIncompleteFailsWitness ==
    /\ pc = "ret"
    /\ ~ retval
    /\ AllSlotsBound
    /\ ~ is_complete(assignment)
    /\ store_op.op = "bind"

\* C26: Success does not require every slot to be filled.  With non-negative
\* quotas whose sum is below the number of slots, the assignment returned on
\* Success binds exactly (sum of quotas) slots and leaves the others free;
\* with all quotas zero solve() returns Success with the empty assignment.
QuotaSum == SumOver(subject_periods, subjects)

QuotaOnlyCompletion ==
    /\ (Returned("Success") /\ NonNegativeQuotas /\ QuotaSum < NumSlots) =>
            /\ Cardinality(Keys(assignment)) = QuotaSum
            /\ Cardinality(SlotSet \ Keys(assignment)) = NumSlots - QuotaSum
    /\ (pc = "done" /\ \A s \in subjects : subject_periods[s] = 0) =>
            (result = "Success" /\ assignment = {})

\* Success with some slots bound and some free
QuotaOnlyCompletionWitness ==
    /\ Returned("Success")
    /\ NonNegativeQuotas
    /\ QuotaSum >= 2
    /\ QuotaSum < NumSlots
    /\ Keys(assignment) # {}
    /\ Keys(assignment) # SlotSet

\* C27: in every state reached during solve() the bound slots are a prefix
\* of the day-major enumeration: every slot before a bound slot is bound.
PrefixInvariant ==
    \A slot \in Keys(assignment) :
        \A earlier \in SlotSet : Before(earlier, slot) => earlier \in Keys(assignment)

\* Success with the first day full, a slot of the second day bound and a
\* slot free
PrefixInvariantWitness ==
    /\ Returned("Success")
    /\ \E slot \in Keys(assignment) : slot[1] = 2
    /\ Keys(assignment) # SlotSet

\* C28: in every state reached during solve(), for the slot selected in that
\* state, the teacher and classroom occupancy checks of is_valid_assignment
\* reject no value: the candidate set is (subjects below quota) x (teachers
\* capable of the subject) x (all classrooms).  The same teacher and the same
\* classroom may therefore be bound in every slot.
UnconflictedCandidates ==
    {v \in subjects \X teachers \X classrooms :
        /\ Count(v[1]) < subject_periods[v[1]]
        /\ v[1] \in teacher_subjects[v[2]]}

ConflictChecksVacuous ==
    /\ (pc \in {"call", "loop"} /\ get_unassigned_variables(assignment) # <<>>) =>
            get_domain_values(assignment, get_unassigned_variables(assignment)[1])
                = UnconflictedCandidates
    /\ (pc = "loop" /\ Top.cur = NoValue) =>
            /\ Top.slot = get_unassigned_variables(assignment)[1]
            /\ Top.domain_values \subseteq UnconflictedCandidates

\* Success with one teacher and one classroom bound in three or more slots,
\* although another classroom exists
ConflictChecksVacuousWitness ==
    /\ Returned("Success")
    /\ Cardinality(assignment) >= 3
    /\ Cardinality(classrooms) = 2
    /\ \A b1, b2 \in assignment : b1[2][2] = b2[2][2] /\ b1[2][3] = b2[2][3]

\* C29: if every subject with a positive quota has a capable teacher, there
\* is a classroom, and the non-negative quotas sum to at most the number of
\* slots, then whatever the shuffle produces solve() executes no unbind:
\* every level's first candidate leads to Success.
Feasible ==
    /\ NonNegativeQuotas
    /\ \A s \in subjects : subject_periods[s] > 0 => Covered(s)
    /\ classrooms # {}
    /\ QuotaSum <= NumSlots

BacktrackFree ==
    Feasible =>
        /\ store_op.op # "del"
        /\ pc = "ret" => retval
        /\ pc = "done" => result = "Success"
        /\ pc = "loop" => (Top.cur = NoValue /\ Top.domain_values # {})
        /\ \A i \in 1..Len(stack) :
              (stack[i].domain_values \cup {stack[i].cur}) \ {NoValue}
                    = get_domain_values(stack[i].entry, stack[i].slot)

\* a feasible problem that fills every slot has returned Success, at levels
\* that had several candidates to draw from
BacktrackFreeWitness ==
    /\ Feasible
    /\ Returned("Success")
    /\ QuotaSum = NumSlots
    /\ store_op.op = "bind"
    /\ \A s \in subjects : Cardinality({t \in teachers : s \in teacher_subjects[t]}) = 1
    /\ \A s \in subjects : subject_periods[s] >= 1

\* ---- forward_chain: vocabulary ---------------------------------------------
ConditionsHold(rule) ==
    \A k \in 1..Len(rule.conditions) : rule.conditions[k] \in facts
Fired(i) == \E k \in 1..Len(fired_rules) : fired_rules[k] = i
FiredOnce(i) ==
    Cardinality({k \in 1..Len(fired_rules) : fired_rules[k] = i}) <= 1

\* C30: forward chaining fires soundly and once.  A step of forward_chain()
\* that fires a rule appends that one rule to fired_rules, is taken in a
\* state where the rule is unused and every one of its conditions is in the
\* fact set, marks the rule used and leaves its conclusion in the fact set;
\* no rule appears twice in fired_rules, the used rules are exactly the fired
\* ones; and every step leaves all the facts it found in the fact set.
ForwardChainingSound ==
    /\ [][ fired_rules' # fired_rules =>
             \E i \in 1..Len(rules) :
                /\ fired_rules' = Append(fired_rules, i)
                /\ ~rules[i].used
                /\ ConditionsHold(rules[i])
                /\ rules' = [rules EXCEPT ![i].used = TRUE]
                /\ facts' = facts \cup {rules[i].conclusion} ]_vars
    /\ [][ fired_rules' = fired_rules => rules' = rules /\ facts' = facts ]_vars
    /\ [][ facts \subseteq facts' ]_vars
    /\ [](\A i \in 1..Len(rules) :
             FiredOnce(i) /\ (rules[i].used <=> Fired(i)))

\* a rule with conditions fired in the first iteration and, its conditions
\* still holding, was passed over by the second
ForwardChainingSoundWitness ==
    /\ chain_pc = "for"
    /\ iteration = 2
    /\ rule_index = 2
    /\ rules[1].used
    /\ Fired(1)
    /\ Len(rules[1].conditions) > 0
    /\ ConditionsHold(rules[1])
    /\ rules[1].conclusion \notin {rules[1].conditions[k] :
                                      k \in 1..Len(rules[1].conditions)}

\* the facts added before forward_chain() was called: the trace lines of
\* add_fact() that precede the first iteration header
FactsOnEntry ==
    {trace[k][2] : k \in {j \in 1..Len(trace) :
        /\ trace[j][1] = "Added fact"
        /\ \A h \in 1..j : trace[h][1] # "Iteration"}}
\* one round of applying every rule of a set to a fact set
Consequences(fs, rs) ==
    fs \cup {r.conclusion : r \in {q \in rs :
                \A k \in 1..Len(q.conditions) : q.conditions[k] \in fs}}
\* the least fact set containing fs and closed under the rules rs
RECURSIVE Closure(_, _)
Closure(fs, rs) ==
    IF Consequences(fs, rs) = fs THEN fs
    ELSE Closure(Consequences(fs, rs), rs)
\* the rules of the list as a set, whatever their order and used flags
RulesOf(rl) == {Rule(rl[i].conditions, rl[i].conclusion) : i \in 1..Len(rl)}

\* C31: forward chaining reaches the closure.  forward_chain() returns; when
\* it has returned, no unused rule has all its conditions in the fact set,
\* and the fact set is the least set that contains the facts present on
\* entry and is closed under the rules - a set that depends on which rules
\* are in the list and not on their order.
ReachesClosure ==
    /\ <>(chain_pc = "done")
    /\ [](chain_pc = "done" =>
            /\ \A i \in 1..Len(rules) :
                  ~(~rules[i].used /\ ConditionsHold(rules[i]))
            /\ facts = Closure(FactsOnEntry, RulesOf(rules)))

\* forward_chain() has returned after the second rule of the list fired in
\* the first iteration and enabled the first rule, which fired in the second
ReachesClosureWitness ==
    /\ chain_pc = "done"
    /\ iteration = 3
    /\ fired_rules = <<2, 1>>
    /\ rules[2].conclusion \notin FactsOnEntry
    /\ rules[1].conclusion \notin FactsOnEntry
    /\ rules[1].conclusion # rules[2].conclusion
    /\ facts = FactsOnEntry \cup {rules[1].conclusion, rules[2].conclusion}

\* ---- minimax: vocabulary -----------------------------------------------------
\* a call returns in this step
CallReturns == Len(frames') < Len(frames)
EmptyCells(b) == Range(get_available_moves(b))

\* C32: game-tree search restores the board.  When minimax() or
\* find_best_move() returns, the board is the board the call was entered
\* with; between two trial moves of a loop the board is that board as well,
\* also when the loop has been left by the alpha-beta cut-off; and a call
\* that returns at once because the game is over leaves the board to its
\* caller as it received it, with the caller's trial move on it.
SearchRestoresBoard ==
    /\ [][CallReturns => board = TopFrame.entry]_vars
    /\ [](game_pc = "loop" => board = TopFrame.entry)
    /\ [](game_pc = "ret" =>
            board = Put(TopFrame.entry, TopFrame.cur, Mover(TopFrame)))
    /\ [][game_pc = "entry" /\ game_mode = "minimax" => board' = board]_vars

\* a call of minimax() that left its loop by break after a trial move, with
\* cells it never tried, is about to return
SearchRestoresBoardWitness ==
    /\ game_pc = "loop"
    /\ TopFrame.fn = "minimax"
    /\ TopFrame.cut
    /\ TopFrame.moves # <<>>
    /\ Len(TopFrame.moves) < Cardinality(EmptyCells(TopFrame.entry))
    /\ board = TopFrame.entry
    /\ Len(frames) >= 3

\* the board of the game: the board itself, or during the AI's search the
\* board find_best_move() was entered with
PlayBoard == IF frames = <<>> THEN board ELSE frames[1].entry

\* C33: the AI never loses.  In play_game(), whatever legal moves the human
\* makes, the human never has three in a row on the board of the game, and
\* play_game() never fails to unpack the AI's move; and whenever
\* find_best_move() is entered with an empty cell on the board, the move it
\* returns is one of the empty cells.
AiNeverLoses ==
    /\ [](game_mode = "play_game" =>
            ~is_winner(PlayBoard, human) /\ game_pc # "crashed")
    /\ [][CallReturns /\ TopFrame.fn = "find_best_move"
             /\ EmptyCells(TopFrame.entry) # {}
          => best_move' \in EmptyCells(TopFrame.entry)]_vars

\* a game played to the last cell: the human has made five moves, the AI has
\* answered four, and nobody has three in a row
AiNeverLosesWitness ==
    /\ game_mode = "play_game"
    /\ game_pc = "over"
    /\ is_board_full(board)
    /\ ~is_winner(board, human)
    /\ ~is_winner(board, ai)
    /\ best_move # <<>>
    /\ board[best_move[1]][best_move[2]] = ai

\* ---- astar: vocabulary ---------------------------------------------------
Adjacent(p, q) == Abs(p[1] - q[1]) + Abs(p[2] - q[2]) = 1
OpenCell(c) == c \in Cells /\ grid[c[2]][c[1]] = 0

\* the positions reachable from the positions S by 4-neighbour moves into
\* open cells of the grid
RECURSIVE ReachFrom(_)
ReachFrom(S) ==
    LET N == S \cup {c \in Cells : OpenCell(c) /\ \E p \in S : Adjacent(p, c)}
    IN IF N = S THEN S ELSE ReachFrom(N)

GoalReachable == goal \in ReachFrom({start})

\* C19: astar returns None exactly when the goal is not reachable from the
\* start through open cells by 4-neighbour moves; otherwise it returns a list
\* that begins with start and ends with goal, in which consecutive positions
\* are 4-neighbours inside the grid and no position after the first is an
\* obstacle; for start = goal the list is <<start>>.
AstarResultContract ==
    /\ astar_pc = "None" => ~ GoalReachable
    /\ astar_pc = "path" =>
        /\ GoalReachable
        /\ Len(path) >= 1
        /\ path[1] = start
        /\ path[Len(path)] = goal
        /\ \A i \in 1..(Len(path) - 1) :
                /\ Adjacent(path[i], path[i + 1])
                /\ OpenCell(path[i + 1])
        /\ start = goal => path = <<start>>

\* a path that goes round an obstacle has been returned, from a start that
\* is itself an obstacle cell
AstarResultContractWitness ==
    /\ astar_pc = "path"
    /\ Len(path) > manhattan_distance(start, goal) + 1
    /\ grid[start[2]][start[1]] = 1

\* ---- solve_puzzle: vocabulary ----------------------------------------------
Offset(d) ==
    CASE d = "Up" -> <<-1, 0>>
      [] d = "Down" -> <<1, 0>>
      [] d = "Left" -> <<0, -1>>
      [] d = "Right" -> <<0, 1>>

Slides == {"Up", "Down", "Left", "Right"}
BlankOf(b) == CHOOSE p \in Positions : b[p[1]][p[2]] = 0
Target(b, d) == <<BlankOf(b)[1] + Offset(d)[1], BlankOf(b)[2] + Offset(d)[2]>>

\* the blank of board b can slide one cell in direction d
CanSlide(b, d) == d \in Slides /\ Target(b, d) \in Positions

\* the board obtained from board b by sliding the blank one cell in direction d
Slide(b, d) ==
    LET from == BlankOf(b)
        to == Target(b, d)
    IN [b EXCEPT ![from[1]] = [@ EXCEPT ![from[2]] = b[to[1]][to[2]]],
                 ![to[1]] = [@ EXCEPT ![to[2]] = 0]]

\* The goal is not reachable from the initial state exactly when some set of
\* boards holds the initial state, is closed under sliding the blank, and
\* does not hold the goal.  When the search returns None the states of
\* `visited` are the candidate for such a set.
ClosedUnderSlides(boards) ==
    \A b \in boards : \A d \in Slides :
        CanSlide(b, d) => Slide(b, d) \in boards

ProvesUnreachable(boards) ==
    /\ initial_state \in boards
    /\ goal_state \notin boards
    /\ ClosedUnderSlides(boards)

\* the parent chain of a node is a chain of moves from the initial state:
\* the root has no parent, no move, depth 0 and the initial state; every other
\* node is its parent's state with the blank slid in the recorded direction
\* and has its parent's depth plus one.  A node with such a chain and the
\* goal as its state proves the goal reachable.
RECURSIVE ChainFromInitial(_)
ChainFromInitial(node) ==
    IF node.parent = <<>>
    THEN node.state = initial_state /\ node.depth = 0 /\ node.move = "None"
    ELSE /\ CanSlide(node.parent[1].state, node.move)
         /\ node.state = Slide(node.parent[1].state, node.move)
         /\ node.depth = node.parent[1].depth + 1
         /\ ChainFromInitial(node.parent[1])

\* C20: solve_puzzle returns None exactly when the goal state is not
\* reachable from the initial state; otherwise it returns a node whose state
\* is the goal and whose parent chain starts at the initial state, each state
\* obtained from its parent by sliding the blank one cell in the recorded
\* direction, with depth equal to the number of moves.
PuzzleResultContract ==
    bfs_pc = "returned" =>
        /\ solution = <<>> => ProvesUnreachable({v.state : v \in visited})
        /\ solution # <<>> =>
            /\ solution[1].state = goal_state
            /\ ChainFromInitial(solution[1])

\* a node of depth 3 or more has been returned, its last two moves differing
PuzzleResultContractWitness ==
    /\ bfs_pc = "returned"
    /\ solution # <<>>
    /\ solution[1].depth >= 3
    /\ solution[1].parent[1].move # solution[1].move

\* the boards that one slide of the blank leads to from the boards given,
\* and the boards given
OneMove(boards) ==
    boards \cup UNION {
        {Slide(b, d) : d \in {e \in Slides : CanSlide(b, e)}} : b \in boards}
\* the boards that at most k slides of the blank lead to from the boards given
RECURSIVE WithinMoves(_, _)
WithinMoves(boards, k) ==
    IF k = 0 THEN boards ELSE WithinMoves(OneMove(boards), k - 1)
\* the positions of the queue after this step that hold a node appended by it
AppendedPositions ==
    {k \in 1..Len(queue') : k > Len(queue) - 1}
StatesOf(nodes) == {v.state : v \in nodes}

\* C34: breadth-first search returns a shortest solution.  The depth of the
\* node solve_puzzle() returns is the least number of slides of the blank
\* that lead from the initial state to the goal state: that many slides reach
\* the goal and fewer do not.  No puzzle state enters the queue twice: a node
\* appended to the queue carries a state that no node of `visited` carried
\* before, enters `visited` with it, `visited` never loses a node and never
\* holds two nodes with one state.
ShortestSolution ==
    /\ [](bfs_pc = "returned" /\ solution # <<>> =>
            IF solution[1].depth = 0 THEN goal_state = initial_state
            ELSE LET fewer == WithinMoves({initial_state},
                                          solution[1].depth - 1)
                 IN  goal_state \notin fewer /\ goal_state \in OneMove(fewer))
    /\ [][LET seen == StatesOf(visited)
              appended == [k \in AppendedPositions |-> queue'[k]]
          IN  /\ \A k \in AppendedPositions :
                    appended[k].state \notin seen /\ appended[k] \in visited'
              /\ Cardinality(StatesOf({appended[k] : k \in AppendedPositions}))
                    = Cardinality(AppendedPositions)]_vars
    /\ [][visited \subseteq visited']_vars
    /\ [](Cardinality(StatesOf(visited)) = Cardinality(visited))

\* a node of depth 4 or more has been returned after a search that met states
\* it had visited before and did not enqueue them again
ShortestSolutionWitness ==
    /\ bfs_pc = "returned"
    /\ solution # <<>>
    /\ solution[1].depth >= 4
    /\ \E v \in visited : \E d \in Slides :
          /\ CanSlide(v.state, d)
          /\ v.parent # <<>>
          /\ Slide(v.state, d) = v.parent[1].state
    /\ Cardinality(visited) > solution[1].depth + 1


TypeOK ==
    /\ pc \in {"idle", "call", "loop", "ret", "done", "crashed"}
    /\ result \in {"none", "Success", "Exhausted"}
    /\ retval \in BOOLEAN
====
